---- MODULE Spec2Model ----
(***************************************************************************)
(* LeadGen: phone normalisation (services/phone_service.py), the cleaning  *)
(* pipeline (services/data_service.py), the Bitrix24 mapper                *)
(* (services/bitrix_service.py) and the managers table                     *)
(* (repositories/managers_repo.py).                                        *)
(*                                                                         *)
(* Text values are sequences of one-character strings.  The tools read     *)
(* ASCII only, so a Cyrillic letter is written as the token "cyr:x"        *)
(* (upper case "CYR:X") and the Arabic-Indic digit three as "ar:3"; each   *)
(* token stands for ONE character of the Python string.  Python's None     *)
(* and pandas' NaN are the one-element sequences None and NaN below, so    *)
(* that every cell of the model is a sequence.                             *)
(***************************************************************************)
EXTENDS Integers, Sequences, FiniteSets, TLC

VARIABLES
    norm_in,        \* PhoneService.normalize: the argument raw
    norm_out,       \* PhoneService.normalize: the returned value
    norm_calls,     \* number of calls of normalize made so far
    pc,             \* DataService.load_and_clean_files: position of the call
    file_paths,     \* the argument file_paths, each path given by its file name
    disk,           \* the files read so far, as read (a file keeps its content)
    file_idx,       \* index of the for-loop over file_paths
    frames,         \* local frames: one cleaned DataFrame per processed file
    total_rows,     \* local counter
    removed_empty_phones, \* local counter
    removed_duplicates,   \* local counter
    seen_phones,    \* local set seen_phones
    trace,          \* observation: per row read, its phones after normalisation and its fate
    result,         \* what the call returned: merged table and stats, or the error raised
    prev_result,    \* what the call before it on the same DataService returned
    call_no,        \* number of the call of load_and_clean_files on this DataService
    roster,         \* the argument managers of BitrixService.__init__
    managers,       \* BitrixService.managers
    manager_cycle,  \* BitrixService._manager_cycle: index of the next element, -1 for None
    map_calls,      \* number of map_to_bitrix calls made on this BitrixService
    map_in,         \* number of rows of the DataFrame given to the last call
    map_out,        \* column "Ответственный" of the DataFrame the last call returned
    map_cols,       \* the columns of the DataFrame the last call returned
    map_df,         \* the DataFrame given to the last call: its columns, its phones per row
    map_phones,     \* the work and mobile phone of each row of the DataFrame returned
    map_raised,     \* the error the last call raised, NoResult when it returned
    tg_in,          \* map_to_bitrix: the cell "telegram" of an input row
    tg_out,         \* map_to_bitrix: the cell "Контакт Telegram" of its output row
    tg_calls,       \* number of rows mapped so far
    managers_table, \* ManagersRepository: table managers, name -> is_active or no row
    repo_last,      \* ManagersRepository: the last call made, and whether it raised
    repo_calls,     \* ManagersRepository: number of calls made so far
    history_table,  \* ProcessingHistoryRepository: the rows of processing_history
    hist_last,      \* ProcessingHistoryRepository: the last call made and its outcome
    hist_calls,     \* ProcessingHistoryRepository: number of calls made so far
    rd_file,        \* DataService._read_file: the file at the path
    rd_idx,         \* DataService._read_file: position of the loop over encodings
    rd_tried,       \* DataService._read_file: the encodings attempted so far, in order
    rd_out          \* DataService._read_file: what the call returned or raised

normVars == <<norm_in, norm_out, norm_calls>>
pipeVars == <<pc, file_paths, disk, file_idx, frames, total_rows,
              removed_empty_phones, removed_duplicates, seen_phones, trace, result,
              prev_result, call_no>>
mapVars  == <<roster, managers, manager_cycle, map_calls, map_in, map_out, map_cols,
              map_df, map_phones, map_raised>>
tgVars   == <<tg_in, tg_out, tg_calls>>
repoVars == <<managers_table, repo_last, repo_calls>>
histVars == <<history_table, hist_last, hist_calls>>
readVars == <<rd_file, rd_idx, rd_tried, rd_out>>
vars     == <<norm_in, norm_out, norm_calls, pc, file_paths, disk, file_idx, frames,
              total_rows, removed_empty_phones, removed_duplicates, seen_phones,
              trace, result, prev_result, call_no, roster, managers, manager_cycle, map_calls, map_in, map_out,
              map_cols, map_df, map_phones, map_raised, tg_in, tg_out, tg_calls, managers_table, repo_last, repo_calls,
              history_table, hist_last, hist_calls, rd_file, rd_idx, rd_tried, rd_out>>

----------------------------------------------------------------------------
(* Values *)

None  == <<"<None>">>
NaN   == <<"<nan>">>
Unset == <<"<unset>">>

\* str(x) of a cell: str(float('nan')) is "nan", a str is itself
Str(x) == IF x = NaN THEN <<"n", "a", "n">> ELSE x

AsciiDigits == {"0", "1", "2", "3", "4", "5", "6", "7", "8", "9"}

\* the characters the pattern \d matches on a Python 3 str: every Unicode
\* decimal digit, of which the model's alphabet holds the ASCII ones and "ar:3"
IsDigit(c) == c \in AsciiDigits \cup {"ar:3"}

----------------------------------------------------------------------------
(* services/phone_service.py *)

PHONE_LENGTH == 11
VALID_PHONE_PREFIXES == {"7", "8"}

\* self._digit_pattern.sub("", s): drop every character matching \D
RECURSIVE DigitPatternSub(_)
DigitPatternSub(s) ==
    IF s = <<>> THEN <<>>
    ELSE IF IsDigit(Head(s)) THEN <<Head(s)>> \o DigitPatternSub(Tail(s))
    ELSE DigitPatternSub(Tail(s))

\* mutants of normalize
normalize_rewrite8(raw) ==
    IF raw = None THEN None
    ELSE LET digits == DigitPatternSub(Str(raw))
             d2 == IF Len(digits) = 10 THEN <<"7">> \o digits ELSE digits
         IN  IF Len(digits) < 10 THEN None
             ELSE IF Len(d2) # PHONE_LENGTH THEN None
             ELSE IF d2[1] \notin VALID_PHONE_PREFIXES THEN None
             ELSE <<"7">> \o Tail(d2)

normalize_noprefixcheck(raw) ==
    IF raw = None THEN None
    ELSE LET digits == DigitPatternSub(Str(raw))
             d2 == IF Len(digits) = 10 THEN <<"7">> \o digits ELSE digits
         IN  IF Len(digits) < 10 THEN None
             ELSE IF Len(d2) # PHONE_LENGTH THEN None
             ELSE d2

normalize_prepend8(raw) ==
    IF raw = None THEN None
    ELSE LET digits == DigitPatternSub(Str(raw))
             d2 == IF Len(digits) = 10 THEN <<"8">> \o digits ELSE digits
         IN  IF Len(digits) < 10 THEN None
             ELSE IF Len(d2) # PHONE_LENGTH THEN None
             ELSE IF d2[1] \notin VALID_PHONE_PREFIXES THEN None
             ELSE d2

ValidationError == <<"<ValidationError>">>

normalize_raising(raw) ==
    IF raw = None THEN None
    ELSE LET digits == DigitPatternSub(Str(raw))
             d2 == IF Len(digits) = 10 THEN <<"7">> \o digits ELSE digits
         IN  IF Len(digits) < 10 THEN None
             ELSE IF Len(d2) # PHONE_LENGTH THEN ValidationError
             ELSE IF d2[1] \notin VALID_PHONE_PREFIXES THEN None
             ELSE d2

\* PhoneService.normalize
normalize(raw) ==
    IF raw = None THEN None
    ELSE LET digits == DigitPatternSub(Str(raw))
             d2 == IF Len(digits) = 10 THEN <<"7">> \o digits ELSE digits
         IN  IF Len(digits) < 10 THEN None
             ELSE IF Len(d2) # PHONE_LENGTH THEN None
             ELSE IF d2[1] \notin VALID_PHONE_PREFIXES THEN None
             ELSE d2

----------------------------------------------------------------------------
(* Inputs of normalize: a free head, a run of the digit 1, an optional     *)
(* trailing separator; and None and NaN.                                   *)

MaxHead == 2
MaxTail == 12

HeadChars == {"7", "8", "5", "+", "ar:3"}

Heads == UNION {[1..n -> HeadChars] : n \in 0..MaxHead}

Ones(k) == [i \in 1..k |-> "1"]

NormInputs ==
    {None, NaN} \cup
    {h \o Ones(k) \o t : h \in Heads, k \in 0..MaxTail, t \in {<<>>, <<"-">>}}

----------------------------------------------------------------------------
(* Column names and patterns, services/data_service.py and config/constants.py *)

\* "Название" (WEBBEE_COLUMNS["NAME"])
cNAME == <<"CYR:N", "cyr:a", "cyr:z", "cyr:v", "cyr:a", "cyr:n", "cyr:i", "cyr:e">>
\* "phone_1", "phone_2" (WEBBEE_COLUMNS["PHONE_1"], ["PHONE_2"])
cPHONE_1 == <<"p", "h", "o", "n", "e", "_", "1">>
cPHONE_2 == <<"p", "h", "o", "n", "e", "_", "2">>
\* "Источник телефона"
cSOURCE == <<"CYR:I", "cyr:s", "cyr:t", "cyr:o", "cyr:ch", "cyr:n", "cyr:i", "cyr:k", " ",
             "cyr:t", "cyr:e", "cyr:l", "cyr:e", "cyr:f", "cyr:o", "cyr:n", "cyr:a">>
\* "Телефон" and "Phone": column names of input files
cTelefon == <<"CYR:T", "cyr:e", "cyr:l", "cyr:e", "cyr:f", "cyr:o", "cyr:n">>
cPhone == <<"P", "h", "o", "n", "e">>

\* str.lower() on the letters of the model's alphabet
LowerChar(c) ==
    CASE c = "CYR:N" -> "cyr:n"
      [] c = "CYR:I" -> "cyr:i"
      [] c = "CYR:T" -> "cyr:t"
      [] c = "P" -> "p"
      [] OTHER -> c

Lower(s) == [i \in 1..Len(s) |-> LowerChar(s[i])]

\* pattern in col_lower (substring test)
Contains(pat, s) ==
    \E i \in 0..(Len(s) - Len(pat)) : \A j \in 1..Len(pat) : s[i + j] = pat[j]

\* phone_patterns, in the order of the list
phone_patterns == <<
    <<"p", "h", "o", "n", "e", "_", "1">>,
    <<"p", "h", "o", "n", "e", "_", "2">>,
    <<"p", "h", "o", "n", "e", "1">>,
    <<"p", "h", "o", "n", "e", "2">>,
    <<"cyr:t", "cyr:e", "cyr:l", "cyr:e", "cyr:f", "cyr:o", "cyr:n">>,
    <<"cyr:t", "cyr:e", "cyr:l", "cyr:e", "cyr:f", "cyr:o", "cyr:n", " ", "1">>,
    <<"cyr:t", "cyr:e", "cyr:l", "cyr:e", "cyr:f", "cyr:o", "cyr:n", " ", "2">>,
    <<"p", "h", "o", "n", "e">>,
    <<"t", "e", "l">>,
    <<"t", "e", "l", "e", "p", "h", "o", "n", "e">>,
    <<"cyr:m", "cyr:o", "cyr:b", "cyr:i", "cyr:l", "cyr:soft", "cyr:n", "cyr:y", "cyr:j">>,
    <<"cyr:r", "cyr:a", "cyr:b", "cyr:o", "cyr:ch", "cyr:i", "cyr:j">> >>

----------------------------------------------------------------------------
(* DataFrames: cols is the column index, rows the rows in order; a row     *)
(* has its index label idx, its cells (one per column, in column order)    *)
(* and origin, which records the file and line the row was read from       *)
(* (origin is not data of the program: no operation reads it).             *)

HasCol(df, c) == \E i \in 1..Len(df.cols) : df.cols[i] = c

ColPos(df, c) == CHOOSE i \in 1..Len(df.cols) : df.cols[i] = c

Cell(df, row, c) == row.cells[ColPos(df, c)]

\* df[c] = vals (one value per row): overwrite the column if it exists, else
\* append it
SetColumn(df, c, vals) ==
    IF HasCol(df, c)
    THEN [df EXCEPT !.rows = [k \in 1..Len(df.rows) |->
              [df.rows[k] EXCEPT !.cells[ColPos(df, c)] = vals[k]]]]
    ELSE [df EXCEPT !.cols = Append(df.cols, c),
                    !.rows = [k \in 1..Len(df.rows) |->
              [df.rows[k] EXCEPT !.cells = Append(df.rows[k].cells, vals[k])]]]

\* the scalar v broadcast to the rows of df
Broadcast(df, v) == [k \in 1..Len(df.rows) |-> v]

\* df.rename(columns={old: new})
Rename(df, old, new) ==
    [df EXCEPT !.cols = [i \in 1..Len(df.cols) |->
                            IF df.cols[i] = old THEN new ELSE df.cols[i]]]

\* pd.isna / notna on a cell
NotNa(x) == x # None /\ x # NaN

----------------------------------------------------------------------------
(* Input files.  A file has a name, and what pd.read_csv makes of it: the  *)
(* header, the data rows, and the encodings under which the read succeeds. *)

MaxRows == 2        \* data rows of one file
MaxFiles == 2       \* length of file_paths
MaxCalls == 2       \* calls of load_and_clean_files on one DataService
MaxFilesTwice == 1  \* paths in the list given to a DataService called again
MaxTotalRows == 3   \* rows read in one run

\* raw phone cells: a missing cell, ten digits, the same number behind an 8,
\* another number written with +7
T10 == <<"9">> \o Ones(9)
U10 == <<"9">> \o [i \in 1..9 |-> "2"]
RawPhones == {NaN, T10, <<"8">> \o T10, <<"+", "7">> \o U10}

\* file names: "a.csv", and "9111111111.csv" whose digits read as a phone
Names == {<<"a", ".", "c", "s", "v">>, T10 \o <<".", "c", "s", "v">>}

\* a path with no file behind it: "nonexistent.csv"
MissingNames == {<<"n", ".", "c", "s", "v">>}

Paths == Names \cup MissingNames

\* mutant: UTF-8 with BOM is tried second
encodings_bomSecond == <<"utf-8", "utf-8-sig", "cp1251", "latin-1">>

\* _read_file, line 106
encodings == <<"utf-8", "cp1251", "latin-1", "utf-8-sig">>

Range(s) == {s[i] : i \in 1..Len(s)}

\* headers: two phone columns, one Cyrillic phone column, one Latin phone
\* column, no phone column
Headers == {<<cNAME, cPHONE_1, cPHONE_2>>, <<cNAME, cTelefon>>,
            <<cNAME, cPhone>>, <<cNAME>>}

\* the cells a column of an input file can hold: a fixed name; any raw phone
\* in the column phone_1; in another phone column nothing or the number
\* behind an 8
CellsOf(c) ==
    IF c = cNAME THEN {<<"x">>}
    ELSE IF c = cPHONE_1 THEN RawPhones
    ELSE {NaN, <<"8">> \o T10}

RowsOf(h) == {r \in [1..Len(h) -> UNION {CellsOf(h[i]) : i \in 1..Len(h)}] :
                \A i \in 1..Len(h) : r[i] \in CellsOf(h[i])}

FilesWith(h) ==
    {[name |-> n, header |-> h, rows |-> rs, readable |-> Range(encodings)] :
        n \in Names, rs \in UNION {[1..k -> RowsOf(h)] : k \in 0..MaxRows}}

Files ==
    UNION {FilesWith(h) : h \in Headers}
    \cup
    {[name |-> n, header |-> <<cNAME>>, rows |-> <<>>, readable |-> {}] : n \in Paths}

----------------------------------------------------------------------------
(* services/data_service.py *)

ReadFailed == [cols |-> <<>>, rows |-> <<>>, enc |-> "none"]

\* DataService._read_file: the first encoding of the list that reads the file;
\* the rows get a RangeIndex 0..n-1
read_file(f, fi) ==
    LET ok == {i \in 1..Len(encodings) : encodings[i] \in f.readable}
    IN  IF ok = {} THEN ReadFailed
        ELSE [cols |-> f.header,
              rows |-> [k \in 1..Len(f.rows) |->
                          [idx |-> k - 1, cells |-> f.rows[k],
                           origin |-> [file |-> fi, name |-> f.name, line |-> k]]],
              enc |-> encodings[CHOOSE i \in ok : \A j \in ok : i <= j]]

\* columns_lower = {col.lower(): col for col in df.columns}, as the list of
\* its items: a repeated key keeps its place and takes the later value.
\* (In the three loops below the value of the accumulator after an iteration
\* is bound, as a, before the next iteration starts.)
RECURSIVE ColumnsLowerFrom(_, _, _)
ColumnsLowerFrom(cols, i, acc) ==
    IF i > Len(cols) THEN acc
    ELSE LET key == Lower(cols[i])
             at == {j \in 1..Len(acc) : acc[j][1] = key}
         IN  CHOOSE r \in {ColumnsLowerFrom(cols, i + 1, a) :
                               a \in {IF at = {} THEN Append(acc, <<key, cols[i]>>)
                                      ELSE [acc EXCEPT ![CHOOSE j \in at : TRUE] =
                                                           <<key, cols[i]>>]}} : TRUE

columns_lower(cols) == ColumnsLowerFrom(cols, 1, <<>>)

\* the inner loop that fills phone_columns: the columns, for one pattern
RECURSIVE ScanColumns(_, _, _, _)
ScanColumns(pattern, items, j, acc) ==
    IF j > Len(items) THEN acc
    ELSE CHOOSE r \in {ScanColumns(pattern, items, j + 1, a) :
                          a \in {IF Contains(pattern, items[j][1])
                                    /\ items[j][2] \notin Range(acc)
                                 THEN Append(acc, items[j][2]) ELSE acc}} : TRUE

\* the outer loop that fills phone_columns: the patterns, from the k-th on
RECURSIVE ScanPhoneColumns(_, _, _)
ScanPhoneColumns(items, k, acc) ==
    IF k > Len(phone_patterns) THEN acc
    ELSE CHOOSE r \in {ScanPhoneColumns(items, k + 1, a) :
                          a \in {ScanColumns(phone_patterns[k], items, 1, acc)}} : TRUE

\* mutant: the matching columns in the order of the columns of the file
found_phone_columns_columnOrder(cols) ==
    SelectSeq(cols, LAMBDA c : \E k \in 1..Len(phone_patterns) :
                                  Contains(phone_patterns[k], Lower(c)))

\* phone_columns after the two loops of _normalize_phones
found_phone_columns(cols) == ScanPhoneColumns(columns_lower(cols), 1, <<>>)

\* mutant: the scan leaves the column "Источник телефона" alone
found_phone_columns_skip_source(cols) ==
    SelectSeq(ScanPhoneColumns(columns_lower(cols), 1, <<>>), LAMBDA c : c # cSOURCE)

\* df[col] = df[col].apply(self.phone_service.normalize), the column created
\* as None when it is missing
ApplyNormalize(df, col) ==
    LET d == IF HasCol(df, col) THEN df ELSE SetColumn(df, col, Broadcast(df, None))
    IN  SetColumn(d, col, [k \in 1..Len(d.rows) |-> normalize(Cell(d, d.rows[k], col))])

\* DataService._normalize_phones
normalize_phones(df) ==
    LET found == found_phone_columns(df.cols)
        phone_columns == IF found = <<>> THEN <<cPHONE_1, cPHONE_2>> ELSE found
        df1 == IF Len(phone_columns) >= 1
               THEN IF phone_columns[1] # cPHONE_1
                    THEN Rename(df, phone_columns[1], cPHONE_1) ELSE df
               ELSE SetColumn(df, cPHONE_1, Broadcast(df, None))
        df2 == IF Len(phone_columns) >= 2
               THEN IF phone_columns[2] # cPHONE_2
                    THEN Rename(df1, phone_columns[2], cPHONE_2) ELSE df1
               ELSE SetColumn(df1, cPHONE_2, Broadcast(df1, None))
    IN  ApplyNormalize(ApplyNormalize(df2, cPHONE_1), cPHONE_2)

\* mutants of _filter_empty_phones
filter_empty_phones_phone1(df) ==
    LET kept == SelectSeq(df.rows, LAMBDA r : NotNa(Cell(df, r, cPHONE_1)))
        both == SelectSeq(df.rows, LAMBDA r : NotNa(Cell(df, r, cPHONE_1))
                                               \/ NotNa(Cell(df, r, cPHONE_2)))
    IN  [df |-> [df EXCEPT !.rows = kept], removed |-> Len(df.rows) - Len(both)]

filter_empty_phones_off(df) == [df |-> df, removed |-> 0]

\* DataService._filter_empty_phones
filter_empty_phones(df) ==
    LET mask_has_phone(r) == NotNa(Cell(df, r, cPHONE_1)) \/ NotNa(Cell(df, r, cPHONE_2))
        kept == SelectSeq(df.rows, mask_has_phone)
    IN  [df |-> [df EXCEPT !.rows = kept], removed |-> Len(df.rows) - Len(kept)]

\* phones = {row["phone_1"], row["phone_2"]} - {None}
RowPhones(df, r) == {Cell(df, r, cPHONE_1), Cell(df, r, cPHONE_2)} \ {None}

\* df.loc[keep_rows]: for each label of keep_rows, the rows that carry it
RECURSIVE Loc(_, _)
Loc(df, labels) ==
    IF labels = <<>> THEN <<>>
    ELSE SelectSeq(df.rows, LAMBDA r : r.idx = Head(labels)) \o Loc(df, Tail(labels))

\* mutants of the loop of _deduplicate
RECURSIVE DedupLoop_addDropped(_, _, _, _, _)
DedupLoop_addDropped(df, k, seen, keep_rows, removed) ==
    IF k > Len(df.rows) THEN [keep_rows |-> keep_rows, removed |-> removed, seen |-> seen]
    ELSE LET phones == RowPhones(df, df.rows[k])
         IN  IF phones = {}
             THEN DedupLoop_addDropped(df, k + 1, seen, keep_rows, removed + 1)
             ELSE IF phones \cap seen # {}
             THEN DedupLoop_addDropped(df, k + 1, seen \cup phones, keep_rows, removed + 1)
             ELSE DedupLoop_addDropped(df, k + 1, seen \cup phones,
                                       Append(keep_rows, df.rows[k].idx), removed)

RECURSIVE DedupLoop_phone1Only(_, _, _, _, _)
DedupLoop_phone1Only(df, k, seen, keep_rows, removed) ==
    IF k > Len(df.rows) THEN [keep_rows |-> keep_rows, removed |-> removed, seen |-> seen]
    ELSE LET phones == RowPhones(df, df.rows[k])
         IN  IF phones = {}
             THEN DedupLoop_phone1Only(df, k + 1, seen, keep_rows, removed + 1)
             ELSE IF {Cell(df, df.rows[k], cPHONE_1)} \cap seen # {}
             THEN DedupLoop_phone1Only(df, k + 1, seen, keep_rows, removed + 1)
             ELSE DedupLoop_phone1Only(df, k + 1, seen \cup phones,
                                       Append(keep_rows, df.rows[k].idx), removed)

\* mutant: the key of a phone is its last ten digits
RECURSIVE DedupLoop_tenDigitKey(_, _, _, _, _)
DedupLoop_tenDigitKey(df, k, seen, keep_rows, removed) ==
    IF k > Len(df.rows) THEN [keep_rows |-> keep_rows, removed |-> removed, seen |-> seen]
    ELSE LET phones == RowPhones(df, df.rows[k])
             keys(ps) == {Tail(x) : x \in ps}
         IN  IF phones = {}
             THEN DedupLoop_tenDigitKey(df, k + 1, seen, keep_rows, removed + 1)
             ELSE IF keys(phones) \cap keys(seen) # {}
             THEN DedupLoop_tenDigitKey(df, k + 1, seen, keep_rows, removed + 1)
             ELSE DedupLoop_tenDigitKey(df, k + 1, seen \cup phones,
                                        Append(keep_rows, df.rows[k].idx), removed)

\* mutant: a row with a phone already seen is kept
RECURSIVE DedupLoop_keepsDuplicates(_, _, _, _, _)
DedupLoop_keepsDuplicates(df, k, seen, keep_rows, removed) ==
    IF k > Len(df.rows) THEN [keep_rows |-> keep_rows, removed |-> removed, seen |-> seen]
    ELSE LET phones == RowPhones(df, df.rows[k])
         IN  IF phones = {}
             THEN DedupLoop_keepsDuplicates(df, k + 1, seen, keep_rows, removed + 1)
             ELSE DedupLoop_keepsDuplicates(df, k + 1, seen \cup phones,
                                            Append(keep_rows, df.rows[k].idx), removed)

\* the loop of DataService._deduplicate, from row k on
RECURSIVE DedupLoop(_, _, _, _, _)
DedupLoop(df, k, seen, keep_rows, removed) ==
    IF k > Len(df.rows) THEN [keep_rows |-> keep_rows, removed |-> removed, seen |-> seen]
    ELSE LET phones == RowPhones(df, df.rows[k])
         IN  IF phones = {}
             THEN DedupLoop(df, k + 1, seen, keep_rows, removed + 1)
             ELSE IF phones \cap seen # {}
             THEN DedupLoop(df, k + 1, seen, keep_rows, removed + 1)
             ELSE DedupLoop(df, k + 1, seen \cup phones,
                            Append(keep_rows, df.rows[k].idx), removed)

\* DataService._deduplicate; seen is the set the call leaves in seen_phones
deduplicate(df, seen) ==
    LET l == DedupLoop(df, 1, seen, <<>>, 0)
    IN  [df |-> [df EXCEPT !.rows = Loc(df, l.keep_rows)],
         removed |-> l.removed, seen |-> l.seen]

\* the columns of pd.concat(frames): the union, in order of first appearance
RECURSIVE ConcatCols(_, _)
ConcatCols(fs, acc) ==
    IF fs = <<>> THEN acc
    ELSE ConcatCols(Tail(fs),
             acc \o SelectSeq(Head(fs).cols, LAMBDA c : c \notin Range(acc)))

\* mutant: the frames are stacked last file first
RECURSIVE ConcatRows_lastFirst(_, _)
ConcatRows_lastFirst(fs, cols) ==
    IF fs = <<>> THEN <<>>
    ELSE LET d == Head(fs)
         IN  ConcatRows_lastFirst(Tail(fs), cols)
             \o [k \in 1..Len(d.rows) |->
                 [d.rows[k] EXCEPT !.cells =
                     [i \in 1..Len(cols) |->
                         IF HasCol(d, cols[i]) THEN Cell(d, d.rows[k], cols[i]) ELSE NaN]]]

\* the rows of pd.concat(frames): those of each frame, frame after frame
RECURSIVE ConcatRows(_, _)
ConcatRows(fs, cols) ==
    IF fs = <<>> THEN <<>>
    ELSE LET d == Head(fs)
         IN  [k \in 1..Len(d.rows) |->
                 [d.rows[k] EXCEPT !.cells =
                     [i \in 1..Len(cols) |->
                         IF HasCol(d, cols[i]) THEN Cell(d, d.rows[k], cols[i]) ELSE NaN]]]
             \o ConcatRows(Tail(fs), cols)

\* pd.concat(frames, ignore_index=True): a cell of a column the row's frame
\* lacks is NaN, the index is renumbered
Concat(fs) ==
    LET cols == ConcatCols(fs, <<>>)
        rows == ConcatRows(fs, cols)
    IN  [cols |-> cols, rows |-> [k \in 1..Len(rows) |-> [rows[k] EXCEPT !.idx = k - 1]]]

NoResult == [kind |-> "none"]
NoTable == [columns |-> {}, phones |-> <<>>]

\* one iteration of the for-loop of load_and_clean_files on the file f,
\* up to frames.append(df)
LoopBody(f, fi, seen) ==
    LET df0 == read_file(f, fi)
        df1 == SetColumn(df0, cSOURCE, Broadcast(df0, f.name))
        df2 == normalize_phones(df1)
        fl  == filter_empty_phones(df2)
        dd  == deduplicate(fl.df, seen)
        Lines(d) == {d.rows[k].origin.line : k \in 1..Len(d.rows)}
    IN  [read |-> Len(df0.rows),
         removed |-> fl.removed,
         dupes |-> dd.removed,
         df |-> [cols |-> dd.df.cols, rows |-> dd.df.rows],
         seen |-> dd.seen,
         trace |-> [k \in 1..Len(df2.rows) |->
                      [file |-> fi, line |-> k,
                       phones |-> RowPhones(df2, df2.rows[k]),
                       fate |-> IF k \notin Lines(fl.df) THEN "empty"
                                ELSE IF k \in Lines(dd.df) THEN "kept" ELSE "dup"]]]

\* the content of the file at a path: what an earlier read found, else any file
OnDisk(path) ==
    IF \E g \in disk : g.name = path
    THEN {g \in disk : g.name = path}
    ELSE {g \in Files : g.name = path}

\* mutant: an empty list gives an empty table and zero statistics
CallEmpty_returnsEmpty ==
    /\ pc = "idle"
    /\ file_paths = <<>>
    /\ pc' = "done"
    /\ result' = [kind |-> "ok", merged |-> [cols |-> <<>>, rows |-> <<>>],
                  stats |-> [total_rows |-> 0, removed_empty_phones |-> 0,
                             removed_duplicates |-> 0, final_rows |-> 0,
                             unique_phones |-> 0]]
    /\ UNCHANGED <<file_paths, disk, file_idx, frames, total_rows, removed_empty_phones,
                   removed_duplicates, seen_phones, trace>>
    /\ UNCHANGED <<prev_result, call_no, normVars, mapVars, tgVars, repoVars, histVars, readVars>>

\* load_and_clean_files, lines 44-45: the empty list
CallEmpty ==
    /\ pc = "idle"
    /\ file_paths = <<>>
    /\ pc' = "raised"
    /\ result' = [kind |-> "FileProcessingError", stage |-> "empty", read |-> 0]
    /\ UNCHANGED <<file_paths, disk, file_idx, frames, total_rows, removed_empty_phones,
                   removed_duplicates, seen_phones, trace>>
    /\ UNCHANGED <<prev_result, call_no, normVars, mapVars, tgVars, repoVars, histVars, readVars>>

\* mutant: seen_phones is an attribute of the service and survives the call
CallStart_keepsSeen ==
    /\ pc = "idle"
    /\ file_paths # <<>>
    /\ pc' = "loop"
    /\ file_idx' = 1
    /\ frames' = <<>>
    /\ total_rows' = 0
    /\ removed_empty_phones' = 0
    /\ removed_duplicates' = 0
    /\ UNCHANGED <<file_paths, disk, seen_phones, trace, result>>
    /\ UNCHANGED <<prev_result, call_no, normVars, mapVars, tgVars, repoVars, histVars, readVars>>

\* lines 47-51: the locals
CallStart ==
    /\ pc = "idle"
    /\ file_paths # <<>>
    /\ pc' = "loop"
    /\ file_idx' = 1
    /\ frames' = <<>>
    /\ total_rows' = 0
    /\ removed_empty_phones' = 0
    /\ removed_duplicates' = 0
    /\ seen_phones' = {}
    /\ UNCHANGED <<file_paths, disk, trace, result>>
    /\ UNCHANGED <<prev_result, call_no, normVars, mapVars, tgVars, repoVars, histVars, readVars>>

\* lines 53-74: one file read and cleaned
ProcessFile ==
    /\ pc = "loop"
    /\ file_idx <= Len(file_paths)
    /\ \E f \in OnDisk(file_paths[file_idx]) :
          /\ read_file(f, file_idx) # ReadFailed
          /\ total_rows + Len(f.rows) <= MaxTotalRows
          /\ \E b \in {LoopBody(f, file_idx, seen_phones)} :
                 /\ total_rows' = total_rows + b.read
                 /\ removed_empty_phones' = removed_empty_phones + b.removed
                 /\ removed_duplicates' = removed_duplicates + b.dupes
                 /\ seen_phones' = b.seen
                 /\ frames' = Append(frames, b.df)
                 /\ trace' = trace \o b.trace
          /\ disk' = disk \cup {f}
    /\ file_idx' = file_idx + 1
    /\ UNCHANGED <<pc, file_paths, result>>
    /\ UNCHANGED <<prev_result, call_no, normVars, mapVars, tgVars, repoVars, histVars, readVars>>

\* mutant: a file that cannot be read is skipped and the loop goes on
ProcessFileRaise_skip ==
    /\ pc = "loop"
    /\ file_idx <= Len(file_paths)
    /\ \E f \in OnDisk(file_paths[file_idx]) :
          /\ read_file(f, file_idx) = ReadFailed
          /\ disk' = disk \cup {f}
    /\ file_idx' = file_idx + 1
    /\ UNCHANGED <<pc, file_paths, frames, total_rows, removed_empty_phones,
                   removed_duplicates, seen_phones, trace, result>>
    /\ UNCHANGED <<prev_result, call_no, normVars, mapVars, tgVars, repoVars, histVars, readVars>>

\* lines 76-81: the file cannot be read; the error leaves the call.  The new
\* error has the details {"path": str(path), "error": str(exc)}, str(exc)
\* being the message of the error of _read_file, and that error as __cause__
ProcessFileRaise ==
    /\ pc = "loop"
    /\ file_idx <= Len(file_paths)
    /\ \E f \in OnDisk(file_paths[file_idx]) :
          /\ read_file(f, file_idx) = ReadFailed
          /\ disk' = disk \cup {f}
          /\ result' = [kind |-> "FileProcessingError", stage |-> "file",
                        read |-> file_idx,
                        details |-> [path |-> f.name,
                                     error |-> [text |-> "not read with any encoding",
                                                name |-> f.name]],
                        cause |-> [kind |-> "FileProcessingError",
                                   details |-> [encodings_tried |-> encodings]]]
    /\ pc' = "raised"
    /\ UNCHANGED <<file_paths, file_idx, frames, total_rows, removed_empty_phones,
                   removed_duplicates, seen_phones, trace>>
    /\ UNCHANGED <<prev_result, call_no, normVars, mapVars, tgVars, repoVars, histVars, readVars>>

\* mutant: unique_phones counts the records of the table
Return_countsRecords ==
    /\ pc = "loop"
    /\ file_idx > Len(file_paths)
    /\ LET merged == Concat(frames)
       IN  result' = [kind |-> "ok", merged |-> merged,
                      stats |-> [total_rows |-> total_rows,
                                 removed_empty_phones |-> removed_empty_phones,
                                 removed_duplicates |-> removed_duplicates,
                                 final_rows |-> Len(merged.rows),
                                 unique_phones |-> Len(merged.rows)]]
    /\ pc' = "done"
    /\ UNCHANGED <<file_paths, disk, file_idx, frames, total_rows, removed_empty_phones,
                   removed_duplicates, seen_phones, trace>>
    /\ UNCHANGED <<prev_result, call_no, normVars, mapVars, tgVars, repoVars, histVars, readVars>>

\* lines 83-95: merge and statistics
Return ==
    /\ pc = "loop"
    /\ file_idx > Len(file_paths)
    /\ LET merged == Concat(frames)
       IN  result' = [kind |-> "ok", merged |-> merged,
                      stats |-> [total_rows |-> total_rows,
                                 removed_empty_phones |-> removed_empty_phones,
                                 removed_duplicates |-> removed_duplicates,
                                 final_rows |-> Len(merged.rows),
                                 unique_phones |-> Cardinality(seen_phones)]]
    /\ pc' = "done"
    /\ UNCHANGED <<file_paths, disk, file_idx, frames, total_rows, removed_empty_phones,
                   removed_duplicates, seen_phones, trace>>
    /\ UNCHANGED <<prev_result, call_no, normVars, mapVars, tgVars, repoVars, histVars, readVars>>

\* the caller holds the returned table and stats and calls load_and_clean_files
\* again on the same DataService with the same paths; the files are as they
\* were.  The locals of the finished call are left as they are: a new call
\* binds its own (lines 47-51)
CallAgain ==
    /\ pc = "done"
    /\ call_no < MaxCalls
    /\ pc' = "idle"
    /\ call_no' = call_no + 1
    /\ prev_result' = result
    /\ result' = NoResult
    /\ trace' = <<>>
    /\ UNCHANGED <<file_paths, disk, file_idx, frames, total_rows, removed_empty_phones,
                   removed_duplicates, seen_phones>>
    /\ UNCHANGED <<normVars, mapVars, tgVars, repoVars, histVars, readVars>>

----------------------------------------------------------------------------
(* Specifications *)

NormOff == norm_in = None /\ norm_out = Unset /\ norm_calls = 0

PipeOff ==
    /\ pc = "off" /\ file_paths = <<>> /\ disk = {} /\ file_idx = 1 /\ frames = <<>>
    /\ total_rows = 0 /\ removed_empty_phones = 0 /\ removed_duplicates = 0
    /\ seen_phones = {} /\ trace = <<>> /\ result = NoResult
    /\ prev_result = NoResult /\ call_no = 0

MapOff ==
    /\ roster = <<>> /\ managers = <<>> /\ manager_cycle = -1
    /\ map_calls = 0 /\ map_in = 0 /\ map_out = <<>> /\ map_cols = <<>>
    /\ map_df = NoTable /\ map_phones = <<>> /\ map_raised = NoResult

TgOff == tg_in = None /\ tg_out = Unset /\ tg_calls = 0

RepoOff == managers_table = <<>> /\ repo_last = [op |-> "off"] /\ repo_calls = 0

HistOff == history_table = <<>> /\ hist_last = [op |-> "off"] /\ hist_calls = 0

ReadOff == rd_file = None /\ rd_idx = 0 /\ rd_tried = <<>> /\ rd_out = NoResult

\* the cleaning pipeline: a DataService and a list of paths it is called with
Init ==
    /\ pc = "idle"
    /\ file_paths \in UNION {[1..n -> Paths] : n \in 0..MaxFiles}
    /\ disk = {}
    /\ file_idx = 1
    /\ frames = <<>>
    /\ total_rows = 0
    /\ removed_empty_phones = 0
    /\ removed_duplicates = 0
    /\ seen_phones = {}
    /\ trace = <<>>
    /\ result = NoResult
    /\ prev_result = NoResult
    /\ call_no = 1
    /\ NormOff
    /\ MapOff
    /\ TgOff
    /\ RepoOff
    /\ HistOff
    /\ ReadOff

Next == CallEmpty \/ CallStart \/ ProcessFile \/ ProcessFileRaise \/ Return

Spec == Init /\ [][Next]_vars

\* the same DataService called more than once
NextTwice ==
    CallEmpty \/ CallStart \/ ProcessFile \/ ProcessFileRaise \/ Return \/ CallAgain

\* a DataService and the list of paths it is called with, call after call
InitTwice == Init /\ Len(file_paths) <= MaxFilesTwice

SpecTwice == InitTwice /\ [][NextTwice]_vars

\* PhoneService.normalize applied to one input
InitNorm ==
    /\ norm_in \in NormInputs
    /\ norm_out = Unset
    /\ norm_calls = 0
    /\ PipeOff
    /\ MapOff
    /\ TgOff
    /\ RepoOff
    /\ HistOff
    /\ ReadOff

\* result = phone_service.normalize(raw)
NormalizeCall ==
    /\ norm_calls = 0
    /\ norm_out' = normalize(norm_in)
    /\ norm_calls' = 1
    /\ UNCHANGED <<norm_in, pipeVars, mapVars, tgVars, repoVars, histVars, readVars>>

\* the value returned, when it is a phone, is given to normalize again
NormalizeAgain ==
    /\ norm_calls = 1
    /\ norm_out # None
    /\ norm_in' = norm_out
    /\ norm_out' = normalize(norm_out)
    /\ norm_calls' = 2
    /\ UNCHANGED <<pipeVars, mapVars, tgVars, repoVars, histVars, readVars>>

NextNorm == NormalizeCall \/ NormalizeAgain

SpecNorm == InitNorm /\ [][NextNorm]_vars

----------------------------------------------------------------------------
(* services/bitrix_service.py *)

MaxManagers == 3    \* length of the list given to BitrixService
MaxMapRows == 4     \* rows of the DataFrame given to map_to_bitrix
MaxMapCalls == 2    \* calls of map_to_bitrix on one BitrixService

ManagerNames == {"m1", "m2", "m3"}

\* settings.default_managers (config/settings.py): "Менеджер 1", "Менеджер 2"
default_managers == <<"Manager 1", "Manager 2">>

Rosters == UNION {[1..n -> ManagerNames] : n \in 0..MaxManagers}

\* config/constants.py, BITRIX_COLUMNS: "Название лида", "Рабочий телефон",
\* "Мобильный телефон", "Адрес", "Корпоративный сайт", "Контакт Telegram",
\* "Контакт ВКонтакте", "Название компании", "Комментарий", "Стадия",
\* "Источник", "Тип услуги", "Источник телефона", "Ответственный"
BITRIX_COLUMNS ==
    <<"Nazvanie lida", "Rabochij telefon", "Mobilnyj telefon", "Adres",
      "Korporativnyj sajt", "Kontakt Telegram", "Kontakt VKontakte",
      "Nazvanie kompanii", "Kommentarij", "Stadiya", "Istochnik", "Tip uslugi",
      "Istochnik telefona", "Otvetstvennyj">>

\* mutant: the empty result is a DataFrame without columns
EmptyResultColumns_none == <<>>

\* pd.DataFrame(columns=BITRIX_COLUMNS).columns
EmptyResultColumns == BITRIX_COLUMNS

\* mutant: the iterator is not advanced inside one call
NextManagers_stuck(ms, pos, n) == [i \in 1..n |-> ms[pos + 1]]

\* [next(self._manager_cycle) for _ in range(n)], the iterator standing at pos
NextManagers(ms, pos, n) == [i \in 1..n |-> ms[((pos + i - 1) % Len(ms)) + 1]]

\* .fillna("").astype(str) on one cell
FillNaStr(x) == IF x \in {NaN, None} THEN <<>> ELSE x

\* the columns map_to_bitrix reads with df.get(column, ""), in the order of
\* lines 51-99: "Category 0", "Название", "phone_1", "phone_2", "Адрес",
\* "companyUrl", "telegram", "vkontakte", "Название", "Источник телефона"
cCATEGORY   == <<"C", "a", "t", "e", "g", "o", "r", "y", " ", "0">>
cADDRESS    == <<"CYR:A", "cyr:d", "cyr:r", "cyr:e", "cyr:s">>
cCOMPANYURL == <<"c", "o", "m", "p", "a", "n", "y", "U", "r", "l">>
cTELEGRAM   == <<"t", "e", "l", "e", "g", "r", "a", "m">>
cVKONTAKTE  == <<"v", "k", "o", "n", "t", "a", "k", "t", "e">>
MapSourceColumns ==
    <<cCATEGORY, cNAME, cPHONE_1, cPHONE_2, cADDRESS, cCOMPANYURL, cTELEGRAM,
      cVKONTAKTE, cNAME, cSOURCE>>

\* the columns of the table given to map_to_bitrix: all of them (a file with
\* two phone columns); without "Источник телефона" (a file with one phone
\* column: _normalize_phones renamed the source column to a phone slot);
\* without "telegram" (a file that has no such column)
MapColumnSets ==
    {Range(MapSourceColumns),
     Range(MapSourceColumns) \ {cSOURCE},
     Range(MapSourceColumns) \ {cTELEGRAM}}

\* phone_1 and phone_2 of a record: canonical phones, no phone shared by two
\* records, a missing phone being None or NaN
Ten(d) == <<"9">> \o [i \in 1..9 |-> d]
PhonePairs ==
    << <<(<<"7">> \o T10), NaN>>,
       <<(<<"8">> \o T10), None>>,
       <<(<<"7">> \o U10), (<<"8">> \o U10)>>,
       <<NaN, (<<"7">> \o Ten("3"))>>,
       <<(<<"8">> \o Ten("3")), (<<"7">> \o Ten("4"))>> >>

\* the tables of n records, n >= 1
MapTables ==
    {[columns |-> cs,
      phones |-> [i \in 1..n |-> PhonePairs[((k + i) % Len(PhonePairs)) + 1]]] :
        cs \in MapColumnSets, n \in 1..MaxMapRows, k \in 0..(Len(PhonePairs) - 1)}

\* the first df.get(column, "") that returns the default "" instead of a Series,
\* 0 when every column is there
FirstMissing(df) ==
    LET ks == {k \in 1..Len(MapSourceColumns) : MapSourceColumns[k] \notin df.columns}
    IN  IF ks = {} THEN 0 ELSE CHOOSE k \in ks : \A m \in ks : k <= m

\* lines 58-61: result["Рабочий телефон"], result["Мобильный телефон"]
phone_columns(df) ==
    [i \in 1..Len(df.phones) |->
        <<FillNaStr(df.phones[i][1]), FillNaStr(df.phones[i][2])>>]

\* BitrixService.__init__
BitrixServiceInit(ms) ==
    /\ roster = ms
    /\ managers = (IF ms # <<>> THEN ms ELSE default_managers)
    /\ manager_cycle = (IF managers # <<>> THEN 0 ELSE -1)
    /\ map_calls = 0
    /\ map_in = 0
    /\ map_out = <<>>
    /\ map_cols = <<>>
    /\ map_df = NoTable
    /\ map_phones = <<>>
    /\ map_raised = NoResult

InitMap ==
    /\ \E ms \in Rosters : BitrixServiceInit(ms)
    /\ NormOff
    /\ PipeOff
    /\ TgOff
    /\ RepoOff
    /\ HistOff
    /\ ReadOff

\* map_to_bitrix on an empty DataFrame: lines 44-46
MapEmpty ==
    /\ map_calls < MaxMapCalls
    /\ map_calls' = map_calls + 1
    /\ map_in' = 0
    /\ map_out' = <<>>
    /\ map_cols' = EmptyResultColumns
    /\ \E cs \in MapColumnSets : map_df' = [columns |-> cs, phones |-> <<>>]
    /\ map_phones' = <<>>
    /\ map_raised' = NoResult
    /\ UNCHANGED <<roster, managers, manager_cycle, normVars, pipeVars, tgVars, repoVars, histVars, readVars>>

\* map_to_bitrix on a DataFrame of n >= 1 rows that has every column read:
\* lines 48-111
MapToBitrix(df) ==
    /\ map_calls < MaxMapCalls
    /\ FirstMissing(df) = 0
    /\ map_calls' = map_calls + 1
    /\ map_df' = df
    /\ map_in' = Len(df.phones)
    /\ map_phones' = phone_columns(df)
    /\ IF manager_cycle # -1
       THEN /\ map_out' = NextManagers(managers, manager_cycle, Len(df.phones))
            /\ manager_cycle' = (manager_cycle + Len(df.phones)) % Len(managers)
       ELSE /\ map_out' = [i \in 1..Len(df.phones) |-> ""]
            /\ UNCHANGED manager_cycle
    /\ map_cols' = BITRIX_COLUMNS
    /\ map_raised' = NoResult
    /\ UNCHANGED <<roster, managers, normVars, pipeVars, tgVars, repoVars, histVars, readVars>>

\* map_to_bitrix on a DataFrame of n >= 1 rows that lacks a column read:
\* df.get(column, "") is the str "", and "".fillna raises AttributeError
\* before the managers are drawn (lines 103-108); nothing is returned
MapRaises(df) ==
    /\ map_calls < MaxMapCalls
    /\ FirstMissing(df) # 0
    /\ map_calls' = map_calls + 1
    /\ map_df' = df
    /\ map_in' = Len(df.phones)
    /\ map_phones' = <<>>
    /\ map_out' = <<>>
    /\ map_cols' = <<>>
    /\ map_raised' = [kind |-> "AttributeError",
                      column |-> MapSourceColumns[FirstMissing(df)]]
    /\ UNCHANGED <<roster, managers, manager_cycle, normVars, pipeVars, tgVars, repoVars, histVars, readVars>>

NextMap ==
    \/ MapEmpty
    \/ \E df \in MapTables : MapToBitrix(df)
    \/ \E df \in MapTables : MapRaises(df)

SpecMap == InitMap /\ [][NextMap]_vars

----------------------------------------------------------------------------
(* services/bitrix_service.py, the column "Контакт Telegram" (lines 72-78) *)

MaxTgParts == 3     \* pieces a telegram cell is put together from

TgUrl == <<"h", "t", "t", "p", "s", ":", "/", "/", "t", ".", "m", "e", "/">>
TgUrlUpper == <<"H", "T", "T", "P", "S", ":", "/", "/", "T", ".", "M", "E", "/">>

TgParts == {<<"@">>, <<"u">>, TgUrl, TgUrlUpper}

RECURSIVE ConcatAll(_)
ConcatAll(ps) == IF ps = <<>> THEN <<>> ELSE Head(ps) \o ConcatAll(Tail(ps))

\* telegram cells: a missing cell, and the texts made of up to MaxTgParts pieces
TgInputs ==
    {NaN} \cup {ConcatAll(ps) : ps \in UNION {[1..k -> TgParts] : k \in 0..MaxTgParts}}

\* re.IGNORECASE on the letters of the alphabet
FoldChar(c) ==
    CASE c = "H" -> "h"
      [] c = "T" -> "t"
      [] c = "P" -> "p"
      [] c = "S" -> "s"
      [] c = "M" -> "m"
      [] c = "E" -> "e"
      [] OTHER -> c

\* pat occurs in s at position i; fold: case=False
MatchAt(s, i, pat, fold) ==
    /\ i + Len(pat) - 1 <= Len(s)
    /\ \A j \in 1..Len(pat) :
          (IF fold THEN FoldChar(s[i + j - 1]) ELSE s[i + j - 1]) = pat[j]

\* Series.str.replace(pat, "") on one string, from position i on: one pass
\* from the left that drops every occurrence of pat, wherever it stands.
\* The pattern is taken literally (regex=False, the default of pandas 2;
\* with regex=True its "." would match any character, which the alphabet
\* does not tell apart)
RECURSIVE StrReplace(_, _, _, _)
StrReplace(s, i, pat, fold) ==
    IF i > Len(s) THEN <<>>
    ELSE IF MatchAt(s, i, pat, fold) THEN StrReplace(s, i + Len(pat), pat, fold)
    ELSE <<s[i]>> \o StrReplace(s, i + 1, pat, fold)

\* lines 72-78 on one cell
telegram_contact(x) ==
    StrReplace(StrReplace(FillNaStr(x), 1, TgUrl, TRUE), 1, <<"@">>, FALSE)

TgInit ==
    /\ tg_in \in TgInputs
    /\ tg_out = Unset
    /\ tg_calls = 0
    /\ NormOff
    /\ PipeOff
    /\ MapOff
    /\ RepoOff
    /\ HistOff
    /\ ReadOff

\* result["Контакт Telegram"] for a row whose telegram cell is tg_in
MapTelegram ==
    /\ tg_calls = 0
    /\ tg_out' = telegram_contact(tg_in)
    /\ tg_calls' = 1
    /\ UNCHANGED <<tg_in, normVars, pipeVars, mapVars, repoVars, histVars, readVars>>

NextTg == MapTelegram

SpecTg == TgInit /\ [][NextTg]_vars

----------------------------------------------------------------------------
(* repositories/managers_repo.py.  The table managers is a function from   *)
(* the names to "none" (no row), "active" (is_active = 1) or "inactive".  *)

MaxRepoCalls == 3   \* calls made on one repository
MaxSyncLen == 2     \* length of the list given to sync_managers

RepoNames == {"A", "B", "C"}

SyncLists == UNION {[1..k -> RepoNames] : k \in 0..MaxSyncLen}

\* SELECT name FROM managers WHERE is_active = 1 (the names; ORDER BY name
\* is not modelled)
get_all_active(t) == {n \in RepoNames : t[n] = "active"}

\* INSERT INTO managers (name) VALUES (?): name is UNIQUE, so a row of that
\* name, active or not, makes the statement fail
InsertFails(t, name) == t[name] # "none"

\* add_manager for each name of S, a DatabaseError being passed over
\* (sync_managers, lines 75-79)
AddAll(t, S) ==
    [n \in RepoNames |-> IF n \in S /\ ~InsertFails(t, n) THEN "active" ELSE t[n]]

\* deactivate_manager for each name of S (sync_managers, lines 82-83)
DeactivateAll(t, S) ==
    [n \in RepoNames |-> IF n \in S /\ t[n] # "none" THEN "inactive" ELSE t[n]]

\* the table after sync_managers(manager_names)
sync_managers(t, manager_names) ==
    LET existing == get_all_active(t)
        new_set == Range(manager_names)
    IN  DeactivateAll(AddAll(t, new_set \ existing), existing \ new_set)

\* a new database after create_table
RepoInit ==
    /\ managers_table = [n \in RepoNames |-> "none"]
    /\ repo_last = [op |-> "create_table", name |-> "", list |-> <<>>, raised |-> FALSE]
    /\ repo_calls = 0
    /\ NormOff
    /\ PipeOff
    /\ MapOff
    /\ TgOff
    /\ HistOff
    /\ ReadOff

\* add_manager(name): the row is inserted, or DatabaseError is raised
AddManager(name) ==
    /\ repo_calls < MaxRepoCalls
    /\ repo_calls' = repo_calls + 1
    /\ managers_table' = AddAll(managers_table, {name})
    /\ repo_last' = [op |-> "add", name |-> name, list |-> <<>>,
                     raised |-> InsertFails(managers_table, name)]
    /\ UNCHANGED <<normVars, pipeVars, mapVars, tgVars, histVars, readVars>>

\* deactivate_manager(name)
DeactivateManager(name) ==
    /\ repo_calls < MaxRepoCalls
    /\ repo_calls' = repo_calls + 1
    /\ managers_table' = DeactivateAll(managers_table, {name})
    /\ repo_last' = [op |-> "deactivate", name |-> name, list |-> <<>>, raised |-> FALSE]
    /\ UNCHANGED <<normVars, pipeVars, mapVars, tgVars, histVars, readVars>>

\* sync_managers(manager_names)
SyncManagers(manager_names) ==
    /\ repo_calls < MaxRepoCalls
    /\ repo_calls' = repo_calls + 1
    /\ managers_table' = sync_managers(managers_table, manager_names)
    /\ repo_last' = [op |-> "sync", name |-> "", list |-> manager_names, raised |-> FALSE]
    /\ UNCHANGED <<normVars, pipeVars, mapVars, tgVars, histVars, readVars>>

NextRepo ==
    \/ \E name \in RepoNames : AddManager(name)
    \/ \E name \in RepoNames : DeactivateManager(name)
    \/ \E manager_names \in SyncLists : SyncManagers(manager_names)

SpecRepo == RepoInit /\ [][NextRepo]_vars

----------------------------------------------------------------------------
(* repositories/processing_history_repo.py and BaseRepository.execute.     *)
(* The table processing_history is the sequence of its rows; no row is     *)
(* ever deleted, so AUTOINCREMENT gives the next row the id Len + 1.       *)

MaxHistCalls == 3   \* calls made on one repository
MaxFileCount == 3   \* the argument file_count
MaxFinalRows == 1   \* stats.final_rows given to finish_processing

\* BaseRepository.execute(query, params, commit=True) on the INSERT of
\* start_processing: the row is written and committed, and what is returned
\* is cursor.fetchall(), a list, empty for an INSERT
execute_insert(t, file_count) ==
    [table |-> Append(t, [id |-> Len(t) + 1, file_count |-> file_count,
                          final_rows |-> 0, status |-> "success", finished |-> FALSE]),
     returned |-> [type |-> "list", items |-> <<>>]]

\* the expression v.lastrowid: a list has no such attribute
lastrowid(v) ==
    IF v.type = "cursor" THEN [kind |-> "returned", value |-> v.lastrowid]
    ELSE [kind |-> "AttributeError"]

\* the UPDATE of finish_processing: the row of that id, when there is one
execute_update(t, record_id, final_rows, status) ==
    [k \in 1..Len(t) |->
        IF t[k].id = record_id
        THEN [t[k] EXCEPT !.final_rows = final_rows, !.status = status, !.finished = TRUE]
        ELSE t[k]]

\* a new database after create_table
HistInit ==
    /\ history_table = <<>>
    /\ hist_last = [op |-> "create_table", kind |-> "returned", value |-> 0, before |-> 0]
    /\ hist_calls = 0
    /\ NormOff
    /\ PipeOff
    /\ MapOff
    /\ TgOff
    /\ RepoOff
    /\ ReadOff

\* start_processing(file_count)
StartProcessing(file_count) ==
    /\ hist_calls < MaxHistCalls
    /\ hist_calls' = hist_calls + 1
    /\ \E e \in {execute_insert(history_table, file_count)} :
          /\ history_table' = e.table
          /\ hist_last' = [op |-> "start", kind |-> lastrowid(e.returned).kind,
                           value |-> (IF lastrowid(e.returned).kind = "returned"
                                      THEN lastrowid(e.returned).value ELSE 0),
                           before |-> Len(history_table)]
    /\ UNCHANGED <<normVars, pipeVars, mapVars, tgVars, repoVars, readVars>>

\* finish_processing(record_id, stats, status)
FinishProcessing(record_id, final_rows, status) ==
    /\ hist_calls < MaxHistCalls
    /\ hist_calls' = hist_calls + 1
    /\ history_table' = execute_update(history_table, record_id, final_rows, status)
    /\ hist_last' = [op |-> "finish", kind |-> "returned", value |-> 0,
                     before |-> Len(history_table)]
    /\ UNCHANGED <<normVars, pipeVars, mapVars, tgVars, repoVars, readVars>>

NextHist ==
    \/ \E file_count \in 1..MaxFileCount : StartProcessing(file_count)
    \/ \E record_id \in 1..MaxHistCalls, final_rows \in 0..MaxFinalRows,
           status \in {"success", "failed"} :
              FinishProcessing(record_id, final_rows, status)

SpecHist == HistInit /\ [][NextHist]_vars

----------------------------------------------------------------------------
(* services/data_service.py: _read_file and _detect_delimiter, the loop    *)
(* over the encodings taken one attempt at a time.  A file is given by its *)
(* suffix, the encodings with which it can be opened and parsed, what      *)
(* csv.Sniffer makes of its first lines, and the number of commas,         *)
(* semicolons and tabs in its first line.                                  *)

MaxDelimCount == 2  \* occurrences of one delimiter in the first line

Suffixes == {".tsv", ".TSV", ".csv", ".txt"}

\* path.suffix.lower()
SuffixLower(x) == IF x = ".TSV" THEN ".tsv" ELSE x

Delims == {",", ";", "tab"}

\* the encodings that read a file: UTF-8 text; UTF-8 text with the byte
\* 0x98, which cp1251 does not decode; cp1251 text that is not UTF-8; bytes
\* that only latin-1 takes; no file at the path.  Latin-1 decodes every
\* byte, and utf-8-sig decodes what utf-8 decodes
ReadableSets ==
    {{"utf-8", "utf-8-sig", "cp1251", "latin-1"}, {"utf-8", "utf-8-sig", "latin-1"},
     {"cp1251", "latin-1"}, {"latin-1"}, {}}

\* the Sniffer fails or gives a delimiter that occurs in the first line
ReadFiles ==
    {f \in [suffix : Suffixes, readable : ReadableSets, sniff : Delims \cup {"fail"},
            count : [Delims -> 0..MaxDelimCount]] :
        f.sniff # "fail" => f.count[f.sniff] >= 1}

\* mutant: a tie of comma and semicolon goes to the semicolon
fallback_delimiter_semicolonTie(suffix, count) ==
    IF SuffixLower(suffix) = ".tsv" THEN "tab"
    ELSE IF SuffixLower(suffix) = ".csv"
         THEN IF count["tab"] > (IF count[","] >= count[";"] THEN count[","] ELSE count[";"])
              THEN "tab"
              ELSE IF count[";"] >= count[","] THEN ";" ELSE ","
    ELSE ","

\* _detect_delimiter, lines 162-184: the except branch
fallback_delimiter(suffix, count) ==
    IF SuffixLower(suffix) = ".tsv" THEN "tab"
    ELSE IF SuffixLower(suffix) = ".csv"
         THEN IF count["tab"] > (IF count[","] >= count[";"] THEN count[","] ELSE count[";"])
              THEN "tab"
              ELSE IF count[";"] > count[","] THEN ";" ELSE ","
    ELSE ","

\* _detect_delimiter on a file the encoding opens
detect_delimiter(f) ==
    IF f.sniff # "fail" THEN f.sniff ELSE fallback_delimiter(f.suffix, f.count)

\* the columns of pd.read_csv(path, sep=delimiter): the fields of the header
ParsedColumns(f, delimiter) == f.count[delimiter] + 1

ReadInit ==
    /\ rd_file \in ReadFiles
    /\ rd_idx = 1
    /\ rd_tried = <<>>
    /\ rd_out = NoResult
    /\ NormOff
    /\ PipeOff
    /\ MapOff
    /\ TgOff
    /\ RepoOff
    /\ HistOff

\* lines 108-137: the attempt with encodings[rd_idx] fails, continue
TryEncodingFails ==
    /\ rd_out = NoResult
    /\ rd_idx <= Len(encodings)
    /\ encodings[rd_idx] \notin rd_file.readable
    /\ rd_tried' = Append(rd_tried, encodings[rd_idx])
    /\ rd_idx' = rd_idx + 1
    /\ UNCHANGED <<rd_file, rd_out, normVars, pipeVars, mapVars, tgVars, repoVars, histVars>>

\* lines 108-132: the attempt with encodings[rd_idx] reads the file, return df
TryEncodingReads ==
    /\ rd_out = NoResult
    /\ rd_idx <= Len(encodings)
    /\ encodings[rd_idx] \in rd_file.readable
    /\ rd_tried' = Append(rd_tried, encodings[rd_idx])
    /\ \E d \in {detect_delimiter(rd_file)} :
          rd_out' = [kind |-> "df", enc |-> encodings[rd_idx], delimiter |-> d,
                     ncols |-> ParsedColumns(rd_file, d)]
    /\ UNCHANGED <<rd_file, rd_idx, normVars, pipeVars, mapVars, tgVars, repoVars, histVars>>

\* lines 139-142: no encoding read the file
ReadRaise ==
    /\ rd_out = NoResult
    /\ rd_idx > Len(encodings)
    /\ rd_out' = [kind |-> "FileProcessingError", encodings_tried |-> encodings]
    /\ UNCHANGED <<rd_file, rd_idx, rd_tried, normVars, pipeVars, mapVars, tgVars,
                   repoVars, histVars>>

NextRead == TryEncodingFails \/ TryEncodingReads \/ ReadRaise

SpecRead == ReadInit /\ [][NextRead]_vars

----------------------------------------------------------------------------
(* Properties of the cleaning pipeline, under Spec *)

Merged == result.merged
Stats == result.stats

\* the non-null phones of a record of a table
PhonesOf(df, r) == {x \in {Cell(df, r, cPHONE_1), Cell(df, r, cPHONE_2)} : NotNa(x)}

\* the phones of the rows kept before row i of the run
KeptBefore(i) == UNION {trace[j].phones : j \in {k \in 1..(i - 1) : trace[k].fate = "kept"}}

\* an 11-character string of digits that starts with 7 or 8
IsCanonical(p) ==
    /\ p # None /\ p # NaN
    /\ Len(p) = 11
    /\ \A i \in 1..Len(p) : IsDigit(p[i])
    /\ p[1] \in {"7", "8"}

\* C1: after a successful run the statistics balance:
\* total_rows = final_rows + removed_duplicates + removed_empty_phones
C1_StatsBalance ==
    pc = "done" =>
        Stats.total_rows =
            Stats.final_rows + Stats.removed_duplicates + Stats.removed_empty_phones

C1_Witness ==
    /\ pc = "done"
    /\ Stats.final_rows > 0
    /\ Stats.removed_duplicates > 0
    /\ Stats.removed_empty_phones > 0

\* C2: in the table a run returns no phone occurs in two different records,
\* in either phone column, within a file or across files
C2_NoSharedPhone ==
    pc = "done" =>
        \A i, j \in 1..Len(Merged.rows) :
            i # j => PhonesOf(Merged, Merged.rows[i]) \cap PhonesOf(Merged, Merged.rows[j]) = {}

C2_Witness ==
    /\ pc = "done"
    /\ \E i, j \in 1..Len(Merged.rows) :
          /\ Merged.rows[i].origin.file # Merged.rows[j].origin.file
          /\ Cardinality(PhonesOf(Merged, Merged.rows[i])) = 2
    /\ Stats.removed_duplicates > 0

\* C3: first occurrence wins: a row with a phone is dropped as a duplicate
\* exactly when its phones meet those of the rows kept before it in the run,
\* else it is kept; removed_duplicates counts the dropped rows, and the seen
\* set holds the phones of kept rows only
C3_FirstOccurrenceWins ==
    /\ \A i \in 1..Len(trace) :
          trace[i].phones # {} =>
              /\ trace[i].fate = "dup" <=> trace[i].phones \cap KeptBefore(i) # {}
              /\ trace[i].fate = "kept" <=> trace[i].phones \cap KeptBefore(i) = {}
    /\ pc \in {"loop", "done"} =>
          /\ removed_duplicates = Cardinality({i \in 1..Len(trace) : trace[i].fate = "dup"})
          /\ seen_phones = KeptBefore(Len(trace) + 1)

C3_Witness ==
    \E i, j, k \in 1..Len(trace) :
        /\ i < j /\ j < k
        /\ trace[i].fate = "kept" /\ trace[j].fate = "dup" /\ trace[k].fate = "kept"
        /\ trace[j].phones \cap trace[k].phones # {}
        /\ trace[i].file # trace[j].file

\* C4: every record of the returned table has a canonical phone in phone_1 or
\* phone_2; a row whose two phones are both null is dropped by the empty-phone
\* filter and counted in removed_empty_phones, never in removed_duplicates
C4_AtLeastOnePhone ==
    pc = "done" =>
        /\ \A i \in 1..Len(Merged.rows) :
              /\ PhonesOf(Merged, Merged.rows[i]) # {}
              /\ \A x \in PhonesOf(Merged, Merged.rows[i]) : IsCanonical(x)
        /\ \A i \in 1..Len(trace) : trace[i].phones = {} <=> trace[i].fate = "empty"
        /\ Stats.removed_empty_phones = Cardinality({i \in 1..Len(trace) : trace[i].phones = {}})
        /\ Stats.removed_duplicates =
              Cardinality({i \in 1..Len(trace) : trace[i].phones # {} /\ trace[i].fate = "dup"})

C4_Witness ==
    /\ pc = "done"
    /\ Stats.removed_empty_phones > 0
    /\ Stats.final_rows > 0

\* C5: every record of the returned table carries, in the column
\* "Источник телефона", the name of the file it was read from
C5_SourceFileTagged ==
    pc = "done" =>
        \A i \in 1..Len(Merged.rows) :
            /\ HasCol(Merged, cSOURCE)
            /\ Cell(Merged, Merged.rows[i], cSOURCE) = Merged.rows[i].origin.name

\* C14: load_and_clean_files called with an empty list of paths fails with a
\* FileProcessingError before any file is opened or read
C14_EmptyListFailsFirst ==
    file_paths = <<>> =>
        /\ pc \in {"idle", "raised"}
        /\ disk = {}
        /\ trace = <<>>
        /\ pc = "raised" => result.kind = "FileProcessingError"

C14_Witness ==
    /\ pc = "raised"
    /\ file_paths = <<>>
    /\ result.kind = "FileProcessingError"

\* the files of the list after position k whose path differs from the paths
\* up to position k
LaterPaths(k) ==
    {file_paths[j] : j \in (k + 1)..Len(file_paths)} \ {file_paths[j] : j \in 1..k}

\* C15: all-or-nothing: when a file of the list cannot be ingested the call
\* raises a FileProcessingError whose details name the path of that file, no
\* later file of the list is read, and neither a table nor statistics are
\* returned, not even for the files already processed
C15_AllOrNothing ==
    /\ (\E g \in disk : g.readable = {}) => pc = "raised"
    /\ (pc = "raised" /\ file_paths # <<>>) =>
          /\ result.kind = "FileProcessingError"
          /\ result.details.path = file_paths[file_idx]
          /\ \E g \in disk : g.name = file_paths[file_idx] /\ g.readable = {}
          /\ \A g \in disk : g.name \notin LaterPaths(file_idx)
          /\ \A i \in 1..Len(trace) : trace[i].file < file_idx
          /\ DOMAIN result \cap {"merged", "stats"} = {}

C15_Witness ==
    /\ pc = "raised"
    /\ file_idx = 2
    /\ result.details.path = <<"n", ".", "c", "s", "v">>
    /\ frames # <<>>
    /\ frames[1].rows # <<>>
    /\ seen_phones # {}

\* C16: when a file cannot be read with any encoding, the error the caller of
\* load_and_clean_files receives carries in its details the path of the file
\* and the list of the encodings tried
C16_ErrorCarriesPathAndEncodings ==
    (pc = "raised" /\ result.stage = "file") =>
        /\ result.details.path = file_paths[file_idx]
        /\ "encodings_tried" \in DOMAIN result.details
        /\ result.details.encodings_tried = encodings

\* C17: after a successful run unique_phones is the number of distinct phones
\* in phone_1 or phone_2 of the records of the returned table; a record with
\* phone_1 = phone_2 counts once
C17_UniquePhones ==
    pc = "done" =>
        Stats.unique_phones =
            Cardinality(UNION {PhonesOf(Merged, Merged.rows[i]) : i \in 1..Len(Merged.rows)})

C17_Witness ==
    /\ pc = "done"
    /\ \E i \in 1..Len(Merged.rows) :
          /\ Cell(Merged, Merged.rows[i], cPHONE_1) = Cell(Merged, Merged.rows[i], cPHONE_2)
          /\ Cardinality(PhonesOf(Merged, Merged.rows[i])) = 1
    /\ Stats.final_rows = 2
    /\ Stats.unique_phones = 2

\* C18: a file with no phone-like column among its own columns does not make
\* the run fail; all its rows have null phone_1 and phone_2, are dropped by
\* the empty-phone filter and none reaches the table or the seen set
C18_NoPhoneColumnDropsAll ==
    \A i \in 1..Len(trace) : \A g \in disk :
        (g.name = file_paths[trace[i].file] /\ found_phone_columns(g.header) = <<>>) =>
            /\ trace[i].phones = {}
            /\ trace[i].fate = "empty"

\* the columns of the DataFrame of the file g when _normalize_phones gets
\* it, and the cell of line l in column j
OrigCols(g) == Append(g.header, cSOURCE)
OrigCell(g, l, j) == IF j <= Len(g.header) THEN g.rows[l][j] ELSE g.name

\* the first pattern of phone_patterns the lower-cased name c contains, 0 for none
Prio(c) ==
    LET ks == {k \in 1..Len(phone_patterns) : Contains(phone_patterns[k], Lower(c))}
    IN  IF ks = {} THEN 0 ELSE CHOOSE k \in ks : \A m \in ks : k <= m

\* the position in cols of the n-th column collected, pr[j] being Prio(cols[j]):
\* columns are taken by pattern, and for one pattern in the order of the
\* columns; 0 when fewer than n columns match
Collected(pr, n) ==
    LET at == {i \in 1..Len(pr) :
                 /\ pr[i] > 0
                 /\ Cardinality({j \in 1..Len(pr) :
                        /\ pr[j] > 0
                        /\ pr[j] < pr[i] \/ (pr[j] = pr[i] /\ j < i)}) = n - 1}
    IN  IF at = {} THEN 0 ELSE CHOOSE i \in at : TRUE

C26_ArrivalOrder ==
    pc = "done" =>
        /\ Len(Merged.rows) = Cardinality({i \in 1..Len(trace) : trace[i].fate = "kept"})
        /\ \A i, j \in 1..Len(Merged.rows) :
              i < j =>
                  \/ Merged.rows[i].origin.file < Merged.rows[j].origin.file
                  \/ /\ Merged.rows[i].origin.file = Merged.rows[j].origin.file
                     /\ Merged.rows[i].origin.line < Merged.rows[j].origin.line

C26_Witness ==
    /\ pc = "done"
    /\ Len(Merged.rows) = 3
    /\ Merged.rows[1].origin.file = 1
    /\ Merged.rows[2].origin.file = 1
    /\ Merged.rows[3].origin.file = 2
    /\ Stats.removed_empty_phones = 0

\* the same ten digits behind the other of the prefixes 7 and 8
Swap78(p) == (IF p[1] = "7" THEN <<"8">> ELSE <<"7">>) \o Tail(p)

\* C27: 8 + d and 7 + d are different dedup keys: a row is not a duplicate
\* because the other form of its phones was seen, both rows are kept and
\* unique_phones counts both; a raw cell 8 + d stays 8 + d
C27_EightAndSevenDistinct ==
    /\ \A j \in 1..Len(trace) :
          (/\ trace[j].phones # {}
           /\ trace[j].phones \cap KeptBefore(j) = {}
           /\ {Swap78(p) : p \in trace[j].phones} \cap KeptBefore(j) # {})
          => trace[j].fate = "kept"
    /\ \A j \in 1..Len(trace) : \A g \in disk :
          (/\ g.name = file_paths[trace[j].file]
           /\ g.header = <<cNAME, cPHONE_1, cPHONE_2>>
           /\ g.rows[trace[j].line][2] = <<"8">> \o T10)
          => <<"8">> \o T10 \in trace[j].phones
    /\ pc = "done" =>
          \A i, j \in 1..Len(Merged.rows) :
              (/\ Cardinality(PhonesOf(Merged, Merged.rows[i])) = 1
               /\ PhonesOf(Merged, Merged.rows[j]) =
                      {Swap78(p) : p \in PhonesOf(Merged, Merged.rows[i])})
              => /\ i # j
                 /\ Stats.unique_phones >=
                        Cardinality(PhonesOf(Merged, Merged.rows[i])
                                    \cup PhonesOf(Merged, Merged.rows[j]))
                 /\ PhonesOf(Merged, Merged.rows[i]) \cup PhonesOf(Merged, Merged.rows[j])
                        \subseteq seen_phones

C27_Witness ==
    /\ pc = "done"
    /\ Len(Merged.rows) = 2
    /\ PhonesOf(Merged, Merged.rows[1]) = {<<"8">> \o T10}
    /\ PhonesOf(Merged, Merged.rows[2]) = {<<"7">> \o T10}
    /\ Stats.unique_phones = 2

\* C30: after a successful run final_rows <= unique_phones <= 2 * final_rows,
\* and during a run no phone leaves the seen set
C30_PhonesPerRecord ==
    /\ [](pc = "done" =>
            /\ Stats.final_rows <= Stats.unique_phones
            /\ Stats.unique_phones <= 2 * Stats.final_rows)
    /\ [][pc = "loop" => seen_phones \subseteq seen_phones']_vars

C30_Witness ==
    /\ pc = "done"
    /\ Stats.final_rows = 2
    /\ Stats.unique_phones = 3
    /\ Stats.removed_duplicates = 1

\* C28: a second call on the same DataService with the same files returns
\* the same table and the same stats as the first: the phones the first call
\* saw do not make rows of the second duplicates
C28_SeenSetPerCall ==
    (pc = "done" /\ call_no > 1) => result = prev_result

C28_Witness ==
    /\ pc = "done"
    /\ call_no = 2
    /\ prev_result.kind = "ok"
    /\ result.stats.final_rows = 1
    /\ result.stats.removed_duplicates = 1
    /\ result.stats.unique_phones = 2

----------------------------------------------------------------------------
(* Properties of PhoneService.normalize, under SpecNorm *)

Digits(s) == SelectSeq(s, IsDigit)

\* the number of digits of the input, None having none
NDigits(raw) == IF raw = None THEN 0 ELSE Len(Digits(Str(raw)))

\* C6: a non-null result of normalize is 11 digits, the first 7 or 8
C6_CanonicalShape ==
    (norm_calls >= 1 /\ norm_out # None) =>
        /\ Len(norm_out) = 11
        /\ \A i \in 1..Len(norm_out) : IsDigit(norm_out[i])
        /\ norm_out[1] \in {"7", "8"}

C6_Witness ==
    /\ norm_calls = 1
    /\ norm_out # None
    /\ norm_out # norm_in
    /\ Len(norm_in) = 11

\* C7: an input with exactly 10 digits normalizes to 7 followed by those digits
C7_TenDigits ==
    (norm_calls >= 1 /\ NDigits(norm_in) = 10) =>
        norm_out = <<"7">> \o Digits(Str(norm_in))

C7_Witness ==
    /\ norm_calls = 1
    /\ NDigits(norm_in) = 10
    /\ norm_in[1] = "5"
    /\ norm_out = <<"7">> \o norm_in

\* C8: normalize returns a canonical phone unchanged, so normalizing its own
\* non-null result gives that result again
C8_Idempotent ==
    /\ (norm_calls >= 1 /\ IsCanonical(norm_in)) => norm_out = norm_in
    /\ norm_calls = 2 => norm_out = norm_in

C8_Witness ==
    /\ norm_calls = 2
    /\ norm_in[1] = "8"
    /\ norm_out = norm_in

----------------------------------------------------------------------------
(* Properties of BitrixService, under SpecMap *)

\* C10: on a new BitrixService with a non-empty list of M managers, the first
\* map_to_bitrix call over N rows gives row i the manager managers[i mod M]
C10_RoundRobin ==
    (map_calls = 1 /\ roster # <<>> /\ map_raised = NoResult) =>
        /\ Len(map_out) = map_in
        /\ \A i \in 0..(map_in - 1) : map_out[i + 1] = roster[(i % Len(roster)) + 1]

C10_Witness ==
    /\ map_calls = 1
    /\ map_raised = NoResult
    /\ Len(roster) = 3
    /\ map_in = 4
    /\ map_out[4] = roster[1]
    /\ map_out[2] # map_out[1]

\* C11: the round-robin cursor starts at position 0 at every map call: the
\* first output row of every call of one mapper is assigned managers[0],
\* whatever the number of rows earlier calls produced
C11_CursorStartsFresh ==
    (map_calls >= 1 /\ map_in >= 1 /\ roster # <<>> /\ map_raised = NoResult) =>
        map_out[1] = roster[1]

\* C12: a mapper given an empty list of managers raises nothing and gives
\* every output row the owner ""
C12_EmptyRosterNoOwner ==
    (map_calls >= 1 /\ roster = <<>> /\ map_raised = NoResult) =>
        /\ Len(map_out) = map_in
        /\ \A i \in 1..Len(map_out) : map_out[i] = ""

\* C13: mapping an empty table returns zero rows and exactly the 14 columns
\* of BITRIX_COLUMNS in their order
C13_EmptyInputKeepsColumns ==
    (map_calls >= 1 /\ map_in = 0) =>
        /\ map_out = <<>>
        /\ map_cols = BITRIX_COLUMNS
        /\ Len(map_cols) = 14

C13_Witness ==
    /\ map_calls = 2
    /\ map_in = 0
    /\ manager_cycle = 1
    /\ map_cols = BITRIX_COLUMNS

\* C29: for a table of N >= 1 records map_to_bitrix returns N rows in the
\* order of the records, row i with the work phone phone_1 and the mobile
\* phone phone_2 of record i, the empty string standing for a missing phone
C29_PhonesCopied ==
    (map_calls >= 1 /\ Len(map_df.phones) >= 1) =>
        /\ map_raised = NoResult
        /\ Len(map_phones) = Len(map_df.phones)
        /\ \A i \in 1..Len(map_df.phones) :
              /\ map_phones[i][1] = (IF map_df.phones[i][1] \in {None, NaN}
                                     THEN <<>> ELSE map_df.phones[i][1])
              /\ map_phones[i][2] = (IF map_df.phones[i][2] \in {None, NaN}
                                     THEN <<>> ELSE map_df.phones[i][2])

\* the text without its leading "https://t.me/" (any case), else without its
\* leading "@", else as it is
StripLeading(s) ==
    IF MatchAt(s, 1, TgUrl, TRUE) THEN SubSeq(s, Len(TgUrl) + 1, Len(s))
    ELSE IF MatchAt(s, 1, <<"@">>, FALSE) THEN Tail(s)
    ELSE s

\* C19: the telegram contact of an output row is the input telegram value
\* with only a leading "https://t.me/" (any case) or a leading "@" removed;
\* every other character, a later "@" or a later occurrence of the prefix
\* included, is unchanged
C19_TelegramLeadingOnly ==
    tg_calls = 1 => tg_out = StripLeading(FillNaStr(tg_in))

----------------------------------------------------------------------------
(* Properties of ManagersRepository, under SpecRepo *)

\* C20: after sync_managers(L), in any state of the repository reached by
\* add_manager, deactivate_manager and sync_managers calls, get_all_active()
\* holds every name of L and no name outside L
C20_SyncMakesActiveSetL ==
    repo_last.op = "sync" => get_all_active(managers_table) = Range(repo_last.list)

----------------------------------------------------------------------------
(* Properties of ProcessingHistoryRepository, under SpecHist *)

\* C21: start_processing(file_count) inserts one history record and returns
\* its id, an integer greater than 0, without raising
C21_StartReturnsId ==
    hist_last.op = "start" =>
        /\ Len(history_table) = hist_last.before + 1
        /\ hist_last.kind = "returned"
        /\ hist_last.value = history_table[Len(history_table)].id
        /\ hist_last.value > 0

----------------------------------------------------------------------------
(* Properties of _read_file and _detect_delimiter, under SpecRead *)

IsPrefix(s, t) == Len(s) <= Len(t) /\ \A i \in 1..Len(s) : s[i] = t[i]

\* the first encoding of the list order that reads the file f
FirstReading(order, f) ==
    order[CHOOSE i \in 1..Len(order) :
             /\ order[i] \in f.readable
             /\ \A j \in 1..(i - 1) : order[j] \notin f.readable]

\* C22 as stated: the encodings are tried in the order UTF-8, UTF-8 with
\* BOM, Windows-1251, Latin-1, and the parse returned is that of the first
\* encoding of this order that reads the file
C22_SpecOrder ==
    /\ IsPrefix(rd_tried, <<"utf-8", "utf-8-sig", "cp1251", "latin-1">>)
    /\ rd_out.kind = "df" =>
          rd_out.enc = FirstReading(<<"utf-8", "utf-8-sig", "cp1251", "latin-1">>, rd_file)

\* C22 amended: the encodings are tried in the order UTF-8, Windows-1251,
\* Latin-1, UTF-8 with BOM; the parse returned is that of the first encoding
\* of this order that reads the file, and when none does all four were tried
C22_CodeOrder ==
    /\ IsPrefix(rd_tried, <<"utf-8", "cp1251", "latin-1", "utf-8-sig">>)
    /\ rd_out.kind = "df" =>
          /\ rd_out.enc = rd_tried[Len(rd_tried)]
          /\ rd_out.enc =
                FirstReading(<<"utf-8", "cp1251", "latin-1", "utf-8-sig">>, rd_file)
    /\ rd_out.kind = "FileProcessingError" =>
          /\ rd_tried = <<"utf-8", "cp1251", "latin-1", "utf-8-sig">>
          /\ rd_file.readable = {}

C22_Witness ==
    /\ rd_out.kind = "df"
    /\ rd_out.enc = "latin-1"
    /\ rd_tried = <<"utf-8", "cp1251", "latin-1">>

\* C23: ingestion succeeds only with a parse of more than one column; when
\* no (encoding, delimiter) combination gives more than one column it fails
\* with a file-processing error and returns no one-column table
C23_MoreThanOneColumn ==
    rd_out.kind = "df" => rd_out.ncols > 1

Max3(a, b, c) == IF a >= b /\ a >= c THEN a ELSE IF b >= c THEN b ELSE c

\* C24: when sniffing fails a .tsv file gets tab; a .csv file gets a delimiter
\* among comma, semicolon and tab whose count in the first line is maximal,
\* and comma whenever comma is among the maxima; another suffix gets comma
C24_FallbackDelimiter ==
    (rd_out.kind = "df" /\ rd_file.sniff = "fail") =>
        LET c == rd_file.count
            m == Max3(c[","], c[";"], c["tab"])
        IN  /\ rd_file.suffix \in {".tsv", ".TSV"} => rd_out.delimiter = "tab"
            /\ rd_file.suffix = ".csv" =>
                  /\ c[rd_out.delimiter] = m
                  /\ c[","] = m => rd_out.delimiter = ","
            /\ rd_file.suffix = ".txt" => rd_out.delimiter = ","

C24_Witness ==
    /\ rd_out.kind = "df"
    /\ rd_file.sniff = "fail"
    /\ rd_file.suffix = ".csv"
    /\ rd_file.count[","] = 2
    /\ rd_file.count[";"] = 2
    /\ rd_file.count["tab"] = 1
    /\ rd_out.delimiter = ","

====
